---- MODULE Spec2Model ----
(***************************************************************************)
(* Model of backend-server.js: the product catalog and visitor counter     *)
(* REST handlers over the two JSON files products.json and stats.json.     *)
(***************************************************************************)
EXTENDS Integers, Sequences, FiniteSets, TLC

(* ------------------------------ bounds -------------------------------- *)
\* highest product id a Create may allocate in the model
MaxId == 3
\* highest visit counter a RecordVisit may write in the model
MaxVisits == 2
\* highest visit counter an initial stats.json may hold
MaxInitVisits == 1
\* number of clients with a request in flight at the same time
NumClients == 2

(* --------------------------- JavaScript values ------------------------ *)
\* Request-body field values, written as their JavaScript literals.
Undefined == "undefined"
Null == "null"
EmptyStr == "''"
Zero == "0"
StrA == "'A'"
StrB == "'B'"
StrC == "'C'"
StrD == "'D'"
StrE == "'E'"

\* Values a number-valued property can have besides a number: undefined (the
\* property is missing), NaN, null.
UndefinedNum == -1
NaN == -2
NullId == -3

\* JavaScript ToBoolean: the falsy values are undefined, null, "", 0, NaN, false.
ToBooleanNullish(v) == v \notin {"undefined", "null"}
ToBoolean(v) == v \notin {"undefined", "null", "''", "0", "NaN", "false"}

Fields == {"name", "description", "image", "alt"}

\* The request bodies the model draws.  Two well-formed bodies, the second with
\* a different value in every field; bodies with one field omitted or falsy
\* (every field in two ways, every falsy value on two fields); the empty body.
BaseBody == [name |-> StrA, description |-> StrA, image |-> StrA, alt |-> StrA]
OtherBody == [name |-> StrB, description |-> StrC, image |-> StrD, alt |-> StrE]
NoBody == [name |-> Undefined, description |-> Undefined, image |-> Undefined, alt |-> Undefined]
FalsyCases ==
  {<<"name", Undefined>>, <<"name", Null>>, <<"description", Null>>, <<"description", EmptyStr>>,
   <<"image", EmptyStr>>, <<"image", Zero>>, <<"alt", Zero>>, <<"alt", Undefined>>}
ValidBodies == {BaseBody, OtherBody}
InvalidBodies == {[BaseBody EXCEPT ![c[1]] = c[2]] : c \in FalsyCases} \cup {NoBody}
Bodies == ValidBodies \cup InvalidBodies

\* `!name || !description || !image || !alt`
MissingFieldsNoAlt(body) ==
  ~ToBoolean(body.name) \/ ~ToBoolean(body.description) \/ ~ToBoolean(body.image)
MissingFields(body) ==
  ~ToBoolean(body.name) \/ ~ToBoolean(body.description) \/ ~ToBoolean(body.image) \/ ~ToBoolean(body.alt)

(* ------------------------------ path ids ------------------------------ *)
\* The :id path parameter is a string, modelled as a sequence of characters.
DigitChars == <<"0", "1", "2", "3", "4", "5", "6", "7", "8", "9">>
IsDigit(c) == \E i \in 1..10 : DigitChars[i] = c
DigitValue(c) == (CHOOSE i \in 1..10 : DigitChars[i] = c) - 1
PathIds == {<<DigitChars[i + 1]>> : i \in 1..MaxId} \cup {<<"x">>, <<"1", "x">>}

\* parseInt(string): the value of the longest decimal-digit prefix, NaN if
\* that prefix is empty.
RECURSIVE DigitPrefixValue(_, _, _)
DigitPrefixValue(s, i, acc) ==
  IF i > Len(s) \/ ~IsDigit(s[i]) THEN acc
  ELSE DigitPrefixValue(s, i + 1, acc * 10 + DigitValue(s[i]))
parseInt(s) ==
  IF Len(s) = 0 \/ ~IsDigit(s[1]) THEN NaN ELSE DigitPrefixValue(s, 1, 0)

\* JavaScript ===  on numbers: NaN equals nothing, itself included.
StrictEq(a, b) == a # NaN /\ b # NaN /\ a = b

(* ------------------------------- files -------------------------------- *)
\* A file is absent, holds text that JSON.parse rejects, or holds JSON text.
FileAbsent == [kind |-> "absent", text |-> <<>>]
FileCorrupt == [kind |-> "corrupt", text |-> <<>>]
JsonFile(text) == [kind |-> "json", text |-> text]

\* JSON.stringify of a number-valued property: NaN is written as null.
StringifyNumber(n) == IF n = NaN THEN NullId ELSE n
\* JSON.stringify(products, null, 2): the array in order, each record with its
\* properties; an undefined property is omitted, which reads back as undefined.
StringifyProduct(p) == [p EXCEPT !.id = StringifyNumber(@)]
StringifyProducts(products) == [i \in 1..Len(products) |-> StringifyProduct(products[i])]
StringifyStats(stats) == [stats EXCEPT !.visits = StringifyNumber(@)]
\* fs.readFileSync(path): throws when the file does not exist.
readFileSync(file) == [throws |-> file.kind = "absent", data |-> file]
\* JSON.parse(data): throws on text that is not JSON, else the value the text
\* denotes (arrays in order, properties by name).
JSONparse(data) == [throws |-> data.kind # "json", value |-> data.text]

\* fs.writeFileSync(path, text).  outcome "ok": the file holds the text;
\* "eacces": open fails, the file is untouched; "enospc": the file was
\* truncated by the open and the write fails, leaving unparsable content.
WriteOutcomes == {"ok", "eacces", "enospc"}
writeFileSync(file, text, outcome) ==
  CASE outcome = "ok" -> JsonFile(text)
    [] outcome = "eacces" -> file
    [] outcome = "enospc" -> FileCorrupt
WriteThrows(outcome) == outcome # "ok"

(* ------------------------- persistence helpers ------------------------ *)
\* try { return JSON.parse(fs.readFileSync(FILE)) } catch (e) { return dflt }
TryReadParse(file, dflt) ==
  LET r == readFileSync(file) IN
    IF r.throws THEN dflt
    ELSE LET v == JSONparse(r.data) IN IF v.throws THEN dflt ELSE v.value

loadProductsSeeded(file) ==
  TryReadParse(file, <<[id |-> 1, name |-> StrA, description |-> StrA, image |-> StrA, alt |-> StrA]>>)
loadProducts(file) == TryReadParse(file, <<>>)

saveProducts(file, products, outcome) ==
  writeFileSync(file, StringifyProducts(products), outcome)

DefaultStats == [visits |-> 0]
loadStatsEmptyDefault(file) == TryReadParse(file, [visits |-> UndefinedNum])
loadStats(file) == TryReadParse(file, DefaultStats)

saveStats(file, stats, outcome) == writeFileSync(file, StringifyStats(stats), outcome)

(* ---------------------------- id allocator ---------------------------- *)
MathMax(a, b) == IF a >= b THEN a ELSE b
\* `p.id || 0`
IdOrZeroTypo(p) == 0
IdOrZero(p) == IF p.id \in {UndefinedNum, NaN, NullId, 0} THEN 0 ELSE p.id
\* products.reduce((max, p) => Math.max(max, p.id || 0), 0)
RECURSIVE ReduceMaxId(_, _, _)
ReduceMaxId(products, i, max) ==
  IF i > Len(products) THEN max
  ELSE ReduceMaxId(products, i + 1, MathMax(max, IdOrZero(products[i])))
generateProductIdByCount(products) == Len(products) + 1
generateProductIdFirstFree(products) ==
  CHOOSE n \in 1..(Len(products) + 1) :
    /\ \A i \in 1..Len(products) : products[i].id # n
    /\ \A m \in 1..(n - 1) : \E i \in 1..Len(products) : products[i].id = m
generateProductId(products) == ReduceMaxId(products, 1, 0) + 1

\* products.findIndex(p => p.id === productId), 1-based; -1 when none matches
findIndexOrLast(products, productId) ==
  IF \E i \in 1..Len(products) : StrictEq(products[i].id, productId)
  THEN CHOOSE i \in 1..Len(products) : StrictEq(products[i].id, productId)
  ELSE IF Len(products) > 0 THEN Len(products) ELSE -1
findIndex(products, productId) ==
  IF \E i \in 1..Len(products) : StrictEq(products[i].id, productId)
  THEN CHOOSE i \in 1..Len(products) :
         /\ StrictEq(products[i].id, productId)
         /\ \A j \in 1..(i - 1) : ~StrictEq(products[j].id, productId)
  ELSE -1

\* products[index] = value
assignAtPush(products, index, value) == Append(products, value)
assignAtMoveToEnd(products, index, value) ==
  Append([i \in 1..(Len(products) - 1) |-> IF i < index THEN products[i] ELSE products[i + 1]],
         value)
assignAt(products, index, value) == [products EXCEPT ![index] = value]

\* products.splice(index, 1)
spliceToEnd(products, index) == SubSeq(products, 1, index - 1)
splice(products, index) ==
  [i \in 1..(Len(products) - 1) |-> IF i < index THEN products[i] ELSE products[i + 1]]

(* ------------------------------- state -------------------------------- *)
VARIABLES
  productsFile,   \* products.json
  statsFile,      \* stats.json
  req,            \* the request served last: [op, id, body]
  resp,           \* the response to it: [status, body]
  pre,            \* both files as they were when that request arrived
  io,             \* the load and save calls the handler of that request made
  statsSeen,      \* what GET /api/stats answered since the last visit was recorded
  initVisits,     \* the visit counter the initial stats.json stands for
  visitCalls,     \* number of POST /api/stats/visit requests served
  hiId,           \* highest id a POST /api/products has assigned so far
  deletedTop,     \* ids last deleted while no higher id was stored
  deletedLow,     \* ids last deleted while a higher id was stored
  clients,        \* in-flight requests of the concurrent clients
  running,        \* the client whose handler is on the call stack, 0 if none
  overlapped,     \* TRUE once two requests have been in flight together
  listening       \* the process is up and accepts requests

files == <<productsFile, statsFile>>
history == <<req, resp, pre, io>>
statsGhost == <<initVisits, visitCalls>>
idGhost == <<hiId, deletedTop, deletedLow>>
conc == <<clients, running, overlapped>>
vars == <<productsFile, statsFile, req, resp, pre, io, statsSeen, initVisits, visitCalls,
          hiId, deletedTop, deletedLow, clients, running, overlapped, listening>>

OpList == "GET /api/products"
OpCreate == "POST /api/products"
OpUpdate == "PUT /api/products/:id"
OpDelete == "DELETE /api/products/:id"
OpVisit == "POST /api/stats/visit"
OpStats == "GET /api/stats"
Request(op, id, body) == [op |-> op, id |-> id, body |-> body]
NoRequest == Request("none", <<>>, NoBody)
NoPathId == <<>>

Response(status, body) == [status |-> status, body |-> body]
MissingFieldsError == Response(400, [error |-> "Missing required fields"])
NotFoundError == Response(404, [error |-> "Product not found"])
\* Express answers an exception thrown by a handler with status 500.
ServerError == Response(500, [error |-> "Internal Server Error"])

\* `stats.visits || 0`
VisitsOrZero(stats) == IF stats.visits \in {UndefinedNum, NaN, NullId, 0} THEN 0 ELSE stats.visits

\* The stats.json a server can start with: none, unparsable, {} or {visits: n}.
InitStatsFiles ==
  {FileAbsent, FileCorrupt, JsonFile([visits |-> UndefinedNum])}
    \cup {JsonFile([visits |-> n]) : n \in 0..MaxInitVisits}
\* The products.json a server can start with: none, unparsable or [].
InitProductsFiles == {FileAbsent, FileCorrupt, JsonFile(<<>>)}

\* What the claims call the stored collection: the array in products.json,
\* the empty sequence when there is no readable array.
Stored(file) == IF file.kind = "json" THEN file.text ELSE <<>>
\* The counter stats.json stands for: 0 when absent, unreadable or undefined.
Counter(file) ==
  IF file.kind = "json" /\ file.text.visits >= 0 THEN file.text.visits ELSE 0

NoClient == [pc |-> "idle", op |-> "none", body |-> NoBody, products |-> <<>>, stats |-> DefaultStats, resp |-> Response(0, <<>>)]
Clients == 1..NumClients

\* A call of one of the four persistence helpers, and whether it threw.
Call(name, threw) == [call |-> name, threw |-> threw]
NothingSeen == [times |-> 0, body |-> DefaultStats]

Init ==
  /\ productsFile \in InitProductsFiles
  /\ statsFile \in InitStatsFiles
  /\ req = NoRequest
  /\ resp = Response(0, <<>>)
  /\ pre = [products |-> productsFile, stats |-> statsFile]
  /\ io = <<>>
  /\ statsSeen = NothingSeen
  /\ initVisits = Counter(statsFile)
  /\ visitCalls = 0
  /\ hiId = 0
  /\ deletedTop = {}
  /\ deletedLow = {}
  /\ clients = [c \in Clients |-> NoClient]
  /\ running = 0
  /\ overlapped = FALSE
  /\ listening = TRUE

\* The request and its response are recorded with the files it found and the
\* persistence calls its handler made.
Served(request, response, calls) ==
  /\ listening
  /\ req' = request
  /\ resp' = response
  /\ pre' = [products |-> productsFile, stats |-> statsFile]
  /\ io' = calls
  /\ listening' = listening

\* What the client receives from a handler that ends with res.json(success)
\* after its save: when the save threw, the statements after it are skipped
\* and Express answers the exception with its 500 response.
RespondSwallowing(threw, success) == success
Respond(threw, success) == IF threw THEN ServerError ELSE success

(* ------------------------------ handlers ------------------------------ *)
\* app.get('/api/products')
GetProductsInitializing ==
  LET products == loadProducts(productsFile) IN
    /\ productsFile' = saveProducts(productsFile, products, "ok")
    /\ Served(Request(OpList, NoPathId, NoBody), Response(200, StringifyProducts(products)),
              <<Call("loadProducts", FALSE), Call("saveProducts", FALSE)>>)
    /\ UNCHANGED statsFile
GetProducts ==
  LET products == loadProducts(productsFile) IN
    /\ Served(Request(OpList, NoPathId, NoBody), Response(200, StringifyProducts(products)),
              <<Call("loadProducts", FALSE)>>)
    /\ UNCHANGED files

\* The record Create and Update build from the body.
ProductOf(id, body) ==
  [id |-> id, name |-> body.name, description |-> body.description,
   image |-> body.image, alt |-> body.alt]

\* app.post('/api/products')
PostProduct(body, outcome) ==
  IF MissingFields(body)
  THEN /\ Served(Request(OpCreate, NoPathId, body), MissingFieldsError, <<>>)
       /\ UNCHANGED files
  ELSE LET products == loadProducts(productsFile)
           newProduct == ProductOf(generateProductId(products), body)
           pushed == Append(products, newProduct)
       IN /\ productsFile' = saveProducts(productsFile, pushed, outcome)
          /\ Served(Request(OpCreate, NoPathId, body),
                    Respond(WriteThrows(outcome), Response(201, StringifyProduct(newProduct))),
                    <<Call("loadProducts", FALSE), Call("saveProducts", WriteThrows(outcome))>>)
          /\ UNCHANGED statsFile

\* app.put('/api/products/:id')
PutProductLookupFirst(pathId, body, outcome) ==
  LET productId == parseInt(pathId)
      products == loadProducts(productsFile)
      productIndex == findIndex(products, productId)
  IN IF productIndex = -1
     THEN /\ Served(Request(OpUpdate, pathId, body), NotFoundError,
                    <<Call("loadProducts", FALSE)>>)
          /\ UNCHANGED files
     ELSE IF MissingFields(body)
     THEN /\ Served(Request(OpUpdate, pathId, body), MissingFieldsError,
                    <<Call("loadProducts", FALSE)>>)
          /\ UNCHANGED files
     ELSE LET replaced == assignAt(products, productIndex, ProductOf(productId, body))
          IN /\ productsFile' = saveProducts(productsFile, replaced, outcome)
             /\ Served(Request(OpUpdate, pathId, body),
                       Respond(WriteThrows(outcome), Response(200, StringifyProduct(replaced[productIndex]))),
                       <<Call("loadProducts", FALSE),
                         Call("saveProducts", WriteThrows(outcome))>>)
             /\ UNCHANGED statsFile
PutProduct(pathId, body, outcome) ==
  LET productId == parseInt(pathId) IN
    IF MissingFields(body)
    THEN /\ Served(Request(OpUpdate, pathId, body), MissingFieldsError, <<>>)
         /\ UNCHANGED files
    ELSE LET products == loadProducts(productsFile)
             productIndex == findIndex(products, productId)
         IN IF productIndex = -1
            THEN /\ Served(Request(OpUpdate, pathId, body), NotFoundError,
                           <<Call("loadProducts", FALSE)>>)
                 /\ UNCHANGED files
            ELSE LET replaced == assignAt(products, productIndex, ProductOf(productId, body))
                 IN /\ productsFile' = saveProducts(productsFile, replaced, outcome)
                    /\ Served(Request(OpUpdate, pathId, body),
                              Respond(WriteThrows(outcome), Response(200, StringifyProduct(replaced[productIndex]))),
                              <<Call("loadProducts", FALSE),
                                Call("saveProducts", WriteThrows(outcome))>>)
                    /\ UNCHANGED statsFile

\* app.delete('/api/products/:id')
DeleteProduct(pathId, outcome) ==
  LET productId == parseInt(pathId)
      products == loadProducts(productsFile)
      productIndex == findIndex(products, productId)
  IN IF productIndex = -1
     THEN /\ Served(Request(OpDelete, pathId, NoBody), NotFoundError,
                    <<Call("loadProducts", FALSE)>>)
          /\ UNCHANGED files
     ELSE /\ productsFile' = saveProducts(productsFile, splice(products, productIndex), outcome)
          /\ Served(Request(OpDelete, pathId, NoBody),
                    Respond(WriteThrows(outcome), Response(200, [message |-> "Product deleted"])),
                    <<Call("loadProducts", FALSE), Call("saveProducts", WriteThrows(outcome))>>)
          /\ UNCHANGED statsFile

\* stats.visits = (stats.visits || 0) + 1
IncrementVisitsNoDefault(stats) ==
  [stats EXCEPT !.visits = IF @ \in {UndefinedNum, NaN} THEN NaN ELSE IF @ = NullId THEN 1 ELSE @ + 1]
IncrementVisits(stats) == [stats EXCEPT !.visits = VisitsOrZero(stats) + 1]

\* app.post('/api/stats/visit')
PostVisit(outcome) ==
  LET stats == IncrementVisits(loadStats(statsFile)) IN
    /\ statsFile' = saveStats(statsFile, stats, outcome)
    /\ Served(Request(OpVisit, NoPathId, NoBody),
              Respond(WriteThrows(outcome), Response(200, [visits |-> StringifyNumber(stats.visits)])),
              <<Call("loadStats", FALSE), Call("saveStats", WriteThrows(outcome))>>)
    /\ UNCHANGED productsFile

\* app.get('/api/stats')
GetStatsCounting ==
  LET stats == IncrementVisits(loadStats(statsFile)) IN
    /\ statsFile' = saveStats(statsFile, stats, "ok")
    /\ Served(Request(OpStats, NoPathId, NoBody), Response(200, StringifyStats(stats)),
              <<Call("loadStats", FALSE), Call("saveStats", FALSE)>>)
    /\ UNCHANGED productsFile
GetStats ==
  LET stats == loadStats(statsFile) IN
    /\ Served(Request(OpStats, NoPathId, NoBody), Response(200, StringifyStats(stats)),
              <<Call("loadStats", FALSE)>>)
    /\ UNCHANGED files

(* ------------------- sequential requests: Spec ------------------------ *)
\* The model stops allocating ids above MaxId and counting above MaxVisits.
IdInBound == generateProductId(loadProducts(productsFile)) <= MaxId
VisitInBound == VisitsOrZero(loadStats(statsFile)) < MaxVisits

List == GetProducts /\ UNCHANGED <<statsGhost, statsSeen, idGhost, conc>>
Create ==
  \E body \in Bodies :
    /\ MissingFields(body) \/ IdInBound
    /\ PostProduct(body, "ok")
    /\ UNCHANGED <<statsGhost, statsSeen, idGhost, conc>>
Update ==
  \E pathId \in PathIds, body \in Bodies :
    /\ PutProduct(pathId, body, "ok")
    /\ UNCHANGED <<statsGhost, statsSeen, idGhost, conc>>
Delete ==
  \E pathId \in PathIds :
    /\ DeleteProduct(pathId, "ok")
    /\ UNCHANGED <<statsGhost, statsSeen, idGhost, conc>>
RecordVisit ==
  /\ VisitInBound
  /\ PostVisit("ok")
  /\ visitCalls' = visitCalls + 1
  /\ UNCHANGED <<initVisits, statsSeen, idGhost, conc>>
ReadStats == GetStats /\ UNCHANGED <<statsGhost, statsSeen, idGhost, conc>>

Next == List \/ Create \/ Update \/ Delete \/ RecordVisit \/ ReadStats
Spec == Init /\ [][Next]_vars

(* ------------------------ vocabulary of the claims -------------------- *)
IdsOf(products) == {products[i].id : i \in 1..Len(products)}
MaxOf(S) == CHOOSE m \in S : \A n \in S : n <= m
PreviousMaxPlusOne(products) == IF products = <<>> THEN 1 ELSE MaxOf(IdsOf(products)) + 1
FalsyValues == {Undefined, Null, EmptyStr, Zero}
AllTruthy(body) == \A f \in Fields : body[f] \notin FalsyValues
FieldsOf(p) == [f \in Fields |-> p[f]]
\* the id a path parameter denotes
PathNumber(pathId) == parseInt(pathId)

CreateServed == req.op = OpCreate /\ AllTruthy(req.body)
UpdateServed == req.op = OpUpdate /\ AllTruthy(req.body)
ListedNext == req'.op = OpList

\* C1: a Create whose four fields are all truthy answers 201, and a List that
\* follows it returns the previous collection, in order, with one record
\* appended: the supplied fields under the id (previous maximum id) + 1, or 1
\* for an empty collection.
C1_CreateAppends ==
  [][CreateServed =>
       /\ resp.status = 201
       /\ ListedNext =>
            /\ resp'.status = 200
            /\ resp'.body = Append(Stored(pre.products),
                                   ProductOf(PreviousMaxPlusOne(Stored(pre.products)), req.body))]_vars
\* a Create has appended to a collection that already held two products
C1_Witness ==
  /\ CreateServed /\ resp.status = 201
  /\ Len(Stored(pre.products)) = 2
  /\ Len(Stored(productsFile)) = 3

\* C2: every product of the persisted collection has an id no other product
\* has, and a truthy name, description, image and alt.
C2_UniqueIdsValidFields ==
  LET products == Stored(productsFile) IN
    \A i \in 1..Len(products) :
      /\ \A j \in 1..Len(products) : products[i].id = products[j].id => i = j
      /\ products[i].id >= 1
      /\ AllTruthy(FieldsOf(products[i]))
\* the collection holds two products after a Delete has left a gap below them
C2_Witness ==
  /\ req.op = OpCreate /\ resp.status = 201
  /\ IdsOf(Stored(productsFile)) = {2, 3}

\* C3: a Create or Update with a falsy or omitted field answers 400 with an
\* error message and leaves products.json (and stats.json) as it was.
C3_InvalidRejected ==
  (req.op \in {OpCreate, OpUpdate} /\ ~AllTruthy(req.body)) =>
    /\ resp.status = 400
    /\ resp.body = [error |-> "Missing required fields"]
    /\ productsFile = pre.products
    /\ statsFile = pre.stats
\* an Update of a stored product was rejected for a falsy alt
C3_Witness ==
  /\ req.op = OpUpdate /\ req.body.alt = Zero /\ resp.status = 400
  /\ PathNumber(req.id) \in IdsOf(Stored(pre.products))

\* C4: an Update with truthy fields, or a Delete, of an id no stored product
\* has answers 404 with an error message and leaves the collection as it was.
C4_UnknownIdNotFound ==
  ((UpdateServed \/ req.op = OpDelete) /\ PathNumber(req.id) \notin IdsOf(Stored(pre.products))) =>
    /\ resp.status = 404
    /\ resp.body = [error |-> "Product not found"]
    /\ productsFile = pre.products
\* a Delete of an id missing from a non-empty collection was answered 404
C4_Witness ==
  /\ req.op = OpDelete /\ resp.status = 404
  /\ Len(Stored(pre.products)) >= 1
  /\ PathNumber(req.id) = 1

\* C6: the persisted counter is the initial counter plus the number of
\* RecordVisit calls served, whatever other requests came in between, and the
\* k-th call answers 200 with the initial counter plus k; an absent, unreadable
\* or undefined counter counts as 0.
C6_VisitsCountCalls ==
  /\ Counter(statsFile) = initVisits + visitCalls
  /\ req.op = OpVisit => resp = Response(200, [visits |-> initVisits + visitCalls])
\* the second RecordVisit was served after products had been created
C6_Witness ==
  /\ req.op = OpVisit /\ visitCalls = 2 /\ resp.body.visits = initVisits + 2
  /\ Len(Stored(productsFile)) >= 1

UpdateDone == UpdateServed /\ resp.status = 200
\* the record Update replaced
OldRecord ==
  LET products == Stored(pre.products)
  IN products[CHOOSE i \in 1..Len(products) : products[i].id = PathNumber(req.id)]
ListedWith(products, id, fields) ==
  \E i \in 1..Len(products) : products[i].id = id /\ FieldsOf(products[i]) = fields

\* C7 as stated: after a successful Update(id, q) a List contains a record with
\* that id and q's values, and no record with the pre-update values.
C7_OldValuesGone ==
  [][(UpdateDone /\ ListedNext) =>
       /\ ListedWith(resp'.body, PathNumber(req.id), FieldsOf(req.body))
       /\ \A i \in 1..Len(resp'.body) : FieldsOf(resp'.body[i]) # FieldsOf(OldRecord)]_vars
\* C7 as amended: after a successful Update(id, q) a List contains exactly one
\* record with that id, it carries q's values, and the pre-update values are
\* gone from that id unless q repeats them.
C7_UpdateReplaces ==
  [][(UpdateDone /\ ListedNext) =>
       /\ ListedWith(resp'.body, PathNumber(req.id), FieldsOf(req.body))
       /\ \A i, j \in 1..Len(resp'.body) :
            resp'.body[i].id = PathNumber(req.id) /\ resp'.body[j].id = PathNumber(req.id) => i = j
       /\ FieldsOf(OldRecord) # FieldsOf(req.body) =>
            ~ListedWith(resp'.body, PathNumber(req.id), FieldsOf(OldRecord))]_vars
\* an Update has changed the fields of one of two stored products
C7_Witness ==
  /\ UpdateDone
  /\ Len(Stored(pre.products)) = 2
  /\ FieldsOf(OldRecord) # FieldsOf(req.body)
  /\ ListedWith(Stored(productsFile), PathNumber(req.id), FieldsOf(req.body))

\* C8: with products.json absent or unparsable List answers 200 with the empty
\* sequence, with stats.json absent or unparsable GetStats answers 200 with
\* {visits: 0}, and neither request creates or changes a file.
C8_LoadDefaults ==
  /\ (req.op = OpList /\ pre.products.kind # "json") =>
       resp = Response(200, <<>>) /\ productsFile = pre.products /\ statsFile = pre.stats
  /\ (req.op = OpStats /\ pre.stats.kind # "json") =>
       resp = Response(200, [visits |-> 0]) /\ productsFile = pre.products /\ statsFile = pre.stats
\* GetStats was served from an unparsable stats.json
C8_Witness ==
  /\ req.op = OpStats /\ pre.stats.kind = "corrupt" /\ statsFile.kind = "corrupt"
  /\ resp.status = 200

(* ---------------- id bookkeeping over requests: SpecIds --------------- *)
\* Create, Update and Delete requests, with a record of the ids assigned and of
\* the ids deleted (and whether a higher id was stored at the deletion).
IdsCreate ==
  /\ IdInBound
  /\ PostProduct(BaseBody, "ok")
  /\ hiId' = MathMax(hiId, resp'.body.id)
  /\ UNCHANGED <<deletedTop, deletedLow, statsGhost, statsSeen, conc>>
IdsUpdate ==
  \E pathId \in PathIds :
    /\ PutProduct(pathId, OtherBody, "ok")
    /\ UNCHANGED <<idGhost, statsGhost, statsSeen, conc>>
IdsDelete ==
  \E pathId \in PathIds :
    /\ DeleteProduct(pathId, "ok")
    /\ LET id == PathNumber(pathId)
           stored == IdsOf(Stored(productsFile))
       IN IF resp'.status # 200 THEN UNCHANGED <<deletedTop, deletedLow>>
          ELSE IF \E m \in stored : m > id
               THEN deletedLow' = deletedLow \cup {id} /\ deletedTop' = deletedTop \ {id}
               ELSE deletedTop' = deletedTop \cup {id} /\ deletedLow' = deletedLow \ {id}
    /\ UNCHANGED <<hiId, statsGhost, statsSeen, conc>>
NextIds == IdsCreate \/ IdsUpdate \/ IdsDelete
SpecIds == Init /\ [][NextIds]_vars

CreateDone == req.op = OpCreate /\ resp.status = 201
DeletedIds == deletedTop \cup deletedLow

\* C9 as stated: a Create never assigns an id a stored product holds, assigns
\* the id of a deleted product only if that id was the highest stored (or the
\* only one) when it was deleted, and never an id below one still stored.
C9_ReuseOnlyOfTopDeleted ==
  CreateDone =>
    /\ resp.body.id \notin IdsOf(Stored(pre.products))
    /\ resp.body.id \in DeletedIds => resp.body.id \in deletedTop
    /\ \A m \in IdsOf(Stored(pre.products)) : m < resp.body.id
\* C9 as amended: a Create never assigns an id a stored product holds, and it
\* assigns the id of a deleted product only if no product with that id or a
\* higher one is stored at the time of the Create (whether or not the id was
\* the highest when it was deleted); an id below one still stored is never
\* reused.
C9_ReuseOnlyAboveStored ==
  CreateDone =>
    /\ resp.body.id \notin IdsOf(Stored(pre.products))
    /\ resp.body.id \in DeletedIds => \A m \in IdsOf(Stored(pre.products)) : m < resp.body.id
\* a Create reused the id of a deleted product while lower ids were stored
C9_Witness ==
  /\ CreateDone
  /\ resp.body.id \in DeletedIds
  /\ IdsOf(Stored(pre.products)) # {}

\* C10 as stated: the id a successful Create assigns is at least the id every
\* earlier successful Create assigned.
C10_IdsNeverDecrease == CreateDone => resp.body.id >= hiId
\* C10 as amended: the id a successful Create assigns is greater than the id of
\* every product stored at that time, so greater than the id assigned by every
\* earlier successful Create whose product has not been deleted; as long as no
\* Delete has succeeded it is greater than every id assigned before.
C10_IdsAboveStored ==
  CreateDone =>
    /\ \A m \in IdsOf(Stored(pre.products)) : resp.body.id > m
    /\ DeletedIds = {} => resp.body.id = hiId /\ Len(Stored(productsFile)) = hiId
\* a Create was served after earlier Creates and a Delete, next to a product
\* an earlier Create made
C10_Witness ==
  /\ CreateDone
  /\ DeletedIds # {}
  /\ hiId >= 2
  /\ IdsOf(Stored(pre.products)) # {}

(* ---------------- requests in flight together: SpecConc --------------- *)
\* Two clients send a RecordVisit or a Create each; the server's event loop
\* runs one handler at a time, each from its load to its response.
ClientOps == {OpVisit, OpCreate}
ClientBodies == ValidBodies \cup {NoBody}
Others(c) == Clients \ {c}

\* A handler body is synchronous (readFileSync ... writeFileSync, no await, no
\* callback): once entered it keeps the call stack until it has responded.
MayRunAnytime(c) == TRUE
MayRun(c) == running \in {0, c}

\* the request reaches the server and waits for the event loop
Arrive(c) ==
  /\ clients[c].pc = "idle"
  /\ \E op \in ClientOps, body \in ClientBodies :
       clients' = [clients EXCEPT ![c] = [@ EXCEPT !.pc = "queued", !.op = op,
                                          !.body = IF op = OpCreate THEN body ELSE NoBody]]
  /\ overlapped' = (overlapped \/ \E d \in Others(c) : clients[d].pc \in {"queued", "loaded"})
  /\ UNCHANGED <<files, running, history, statsGhost, statsSeen, idGhost, listening>>

\* the handler runs up to and including its load
HandlerLoad(c) ==
  /\ clients[c].pc = "queued"
  /\ MayRun(c)
  /\ IF clients[c].op = OpCreate /\ MissingFields(clients[c].body)
     THEN /\ clients' = [clients EXCEPT ![c] = [@ EXCEPT !.pc = "done", !.resp = MissingFieldsError]]
          /\ UNCHANGED running
     ELSE /\ clients' = [clients EXCEPT ![c] =
                          IF clients[c].op = OpVisit
                          THEN [@ EXCEPT !.pc = "loaded", !.stats = loadStats(statsFile)]
                          ELSE [@ EXCEPT !.pc = "loaded", !.products = loadProducts(productsFile)]]
          /\ running' = c
  /\ UNCHANGED <<files, overlapped, history, statsGhost, statsSeen, idGhost, listening>>

\* the handler runs from after its load to its response
HandlerSave(c) ==
  /\ clients[c].pc = "loaded"
  /\ MayRun(c)
  /\ IF clients[c].op = OpVisit
     THEN LET stats == IncrementVisits(clients[c].stats) IN
            /\ statsFile' = saveStats(statsFile, stats, "ok")
            /\ clients' = [clients EXCEPT ![c] = [@ EXCEPT !.pc = "done",
                             !.resp = Response(200, [visits |-> StringifyNumber(stats.visits)])]]
            /\ UNCHANGED productsFile
     ELSE LET products == clients[c].products
              newProduct == ProductOf(generateProductId(products), clients[c].body)
          IN /\ productsFile' = saveProducts(productsFile, Append(products, newProduct), "ok")
             /\ clients' = [clients EXCEPT ![c] = [@ EXCEPT !.pc = "done",
                              !.resp = Response(201, StringifyProduct(newProduct))]]
             /\ UNCHANGED statsFile
  /\ running' = 0
  /\ UNCHANGED <<overlapped, history, statsGhost, statsSeen, idGhost, listening>>

NextConc == \E c \in Clients : Arrive(c) \/ HandlerLoad(c) \/ HandlerSave(c)
SpecConc == Init /\ [][NextConc]_vars

Succeeded(c, op) ==
  clients[c].pc = "done" /\ clients[c].op = op /\ clients[c].resp.status \in {200, 201}
DoneVisits == {c \in Clients : Succeeded(c, OpVisit)}
DoneCreates == {c \in Clients : Succeeded(c, OpCreate)}

\* C5 as stated, for requests that were in flight together: when two
\* RecordVisit (or two Create) requests have both completed successfully, the
\* persisted dataset reflects only one of them.
C5_LostUpdate ==
  /\ (overlapped /\ Cardinality(DoneVisits) = 2) => Counter(statsFile) = initVisits + 1
  /\ (overlapped /\ Cardinality(DoneCreates) = 2) => Len(Stored(productsFile)) = 1
\* C5 as amended: a handler runs from its load to its save without another
\* handler in between, so every request that completed successfully is
\* reflected: the counter is the initial counter plus the number of completed
\* RecordVisit requests, and every completed Create has its own record, under
\* an id of its own, in the collection.
C5_NoLostUpdate ==
  /\ Counter(statsFile) = initVisits + Cardinality(DoneVisits)
  /\ Len(Stored(productsFile)) = Cardinality(DoneCreates)
  /\ \A c \in DoneCreates :
       /\ \E i \in 1..Len(Stored(productsFile)) : Stored(productsFile)[i] = clients[c].resp.body
       /\ \A d \in DoneCreates \ {c} : clients[d].resp.body.id # clients[c].resp.body.id
\* two RecordVisit requests that were in flight together have both completed
C5_Witness ==
  /\ overlapped
  /\ Cardinality(DoneVisits) = 2
  /\ Counter(statsFile) = initVisits + 2

(* ------------- what GetStats answers over time: SpecStats ------------- *)
\* All six requests, with a record of what GET /api/stats answered since the
\* last POST /api/stats/visit (and whether it answered once or more often).
StatsList == GetProducts /\ UNCHANGED <<statsGhost, statsSeen, idGhost, conc>>
StatsCreate ==
  /\ IdInBound
  /\ PostProduct(BaseBody, "ok")
  /\ UNCHANGED <<statsGhost, statsSeen, idGhost, conc>>
StatsUpdate ==
  \E pathId \in PathIds :
    /\ PutProduct(pathId, OtherBody, "ok")
    /\ UNCHANGED <<statsGhost, statsSeen, idGhost, conc>>
StatsDelete ==
  \E pathId \in PathIds :
    /\ DeleteProduct(pathId, "ok")
    /\ UNCHANGED <<statsGhost, statsSeen, idGhost, conc>>
StatsVisit ==
  /\ VisitInBound
  /\ PostVisit("ok")
  /\ visitCalls' = visitCalls + 1
  /\ statsSeen' = NothingSeen
  /\ UNCHANGED <<initVisits, idGhost, conc>>
StatsRead ==
  /\ GetStats
  /\ statsSeen' = [times |-> IF statsSeen.times = 0 THEN 1 ELSE 2, body |-> resp'.body]
  /\ UNCHANGED <<statsGhost, idGhost, conc>>
NextStats == StatsList \/ StatsCreate \/ StatsUpdate \/ StatsDelete \/ StatsVisit \/ StatsRead
SpecStats == Init /\ [][NextStats]_vars

\* C11: a GetStats answers 200 with what the previous GetStats answered, when
\* no RecordVisit was served in between (whatever List, Create, Update, Delete
\* and GetStats requests were), and it leaves stats.json as it was.
C11_GetStatsIdempotent ==
  [][req'.op = OpStats =>
       /\ resp'.status = 200
       /\ statsSeen.times > 0 => resp'.body = statsSeen.body
       /\ statsFile' = statsFile]_vars
\* GetStats answered a second time since the last RecordVisit, while
\* products.json held a product
C11_Witness ==
  /\ req.op = OpStats /\ statsSeen.times = 2
  /\ visitCalls >= 1
  /\ pre.products.kind = "json" /\ Len(pre.products.text) >= 1

(* -------------------- frame of Delete and Update ---------------------- *)
DeleteServed == req.op = OpDelete
IsStored(id, products) == \E i \in 1..Len(products) : products[i].id = id
\* the collection without the records carrying the id, the others in order
Without(products, id) == SelectSeq(products, LAMBDA p : p.id # id)
IdSeq(products) == [i \in 1..Len(products) |-> products[i].id]

\* C12: a Delete of an id that a stored product carries answers 200 with the
\* message 'Product deleted', and the persisted collection is then the
\* previous one without that record: one record shorter, every other record
\* unchanged and in the same relative order.
C12_DeleteRemovesOne ==
  (DeleteServed /\ IsStored(PathNumber(req.id), Stored(pre.products))) =>
    /\ resp = Response(200, [message |-> "Product deleted"])
    /\ productsFile.kind = "json"
    /\ Stored(productsFile) = Without(Stored(pre.products), PathNumber(req.id))
    /\ Len(Stored(productsFile)) = Len(Stored(pre.products)) - 1
\* the first of three stored products was deleted, the other two remain
C12_Witness ==
  /\ DeleteServed /\ resp.status = 200
  /\ IdSeq(Stored(pre.products)) = <<1, 2, 3>>
  /\ PathNumber(req.id) = 1
  /\ IdSeq(Stored(productsFile)) = <<2, 3>>

\* C13: a successful Update keeps the length of the persisted collection and
\* its sequence of ids, changes no record but the one carrying the id, and
\* leaves at that record's position the supplied fields under the path's id.
C13_UpdateInPlace ==
  UpdateDone =>
    LET before == Stored(pre.products)
        after == Stored(productsFile)
    IN /\ Len(after) = Len(before)
       /\ IdSeq(after) = IdSeq(before)
       /\ \A i \in 1..Len(before) :
            IF before[i].id = PathNumber(req.id)
            THEN after[i] = ProductOf(PathNumber(req.id), req.body)
            ELSE after[i] = before[i]
\* the first of two stored products was given new field values
C13_Witness ==
  /\ UpdateDone
  /\ IdSeq(Stored(pre.products)) = <<1, 2>>
  /\ PathNumber(req.id) = 1
  /\ Stored(productsFile)[1] # Stored(pre.products)[1]
  /\ Stored(productsFile)[2] = Stored(pre.products)[2]

(* ------------------- validation before the lookup --------------------- *)
Called(name) == \E i \in 1..Len(io) : io[i].call = name

\* C14: an Update with a missing or falsy field answers the 400 validation
\* error whether or not its id is stored, never 404, and its handler neither
\* loads nor saves the product collection.
C14_UpdateValidatesFirst ==
  (req.op = OpUpdate /\ ~AllTruthy(req.body)) =>
    /\ resp = MissingFieldsError
    /\ resp.status # 404
    /\ ~Called("loadProducts") /\ ~Called("saveProducts")
    /\ productsFile = pre.products
\* an Update with a falsy field named an id no stored product carries
C14_Witness ==
  /\ req.op = OpUpdate /\ ~AllTruthy(req.body)
  /\ Len(Stored(pre.products)) >= 1
  /\ ~IsStored(PathNumber(req.id), Stored(pre.products))
  /\ resp.status = 400
\* an Update with a falsy field named the id of a stored product
C14_WitnessStored ==
  /\ req.op = OpUpdate /\ ~AllTruthy(req.body)
  /\ IsStored(PathNumber(req.id), Stored(pre.products))
  /\ resp.status = 400

(* ------------------ absent or unparsable storage files ---------------- *)
ProductsMissing == pre.products.kind # "json"
StatsMissing == pre.stats.kind # "json"
ProductRequest == req.op \in {OpList, OpCreate, OpUpdate, OpDelete}
StatsRequest == req.op \in {OpVisit, OpStats}

\* C15: a request that finds its dataset's file absent or unparsable is
\* answered without a server error, from the dataset default: List answers the
\* empty collection and GetStats {visits: 0}, a valid Create answers 201 and
\* persists a collection holding only the new product under id 1, RecordVisit
\* persists and answers visits = 1, a valid Update and a Delete answer the
\* not-found error without saving, and an invalid Create or Update the
\* validation error.
C15_MissingFileDegrades ==
  /\ (ProductRequest /\ ProductsMissing) \/ (StatsRequest /\ StatsMissing) => resp.status # 500
  /\ (req.op = OpList /\ ProductsMissing) => resp = Response(200, <<>>)
  /\ (req.op = OpStats /\ StatsMissing) => resp = Response(200, [visits |-> 0])
  /\ (CreateServed /\ ProductsMissing) =>
       /\ resp = Response(201, ProductOf(1, req.body))
       /\ productsFile = JsonFile(<<ProductOf(1, req.body)>>)
  /\ (req.op = OpVisit /\ StatsMissing) =>
       /\ resp = Response(200, [visits |-> 1])
       /\ statsFile = JsonFile([visits |-> 1])
  /\ ((UpdateServed \/ DeleteServed) /\ ProductsMissing) =>
       /\ resp = NotFoundError
       /\ ~Called("saveProducts")
       /\ productsFile = pre.products
  /\ (req.op \in {OpCreate, OpUpdate} /\ ~AllTruthy(req.body) /\ ProductsMissing) =>
       resp = MissingFieldsError /\ productsFile = pre.products
\* a Create found products.json unparsable and replaced it by a collection of
\* one product
C15_Witness ==
  /\ CreateServed /\ pre.products.kind = "corrupt"
  /\ resp.status = 201
  /\ productsFile.kind = "json" /\ Len(productsFile.text) = 1
\* a RecordVisit found stats.json absent and created it
C15_WitnessVisit ==
  /\ req.op = OpVisit /\ pre.stats.kind = "absent"
  /\ statsFile.kind = "json"
\* a Delete found products.json absent and left it absent
C15_WitnessDelete ==
  /\ DeleteServed /\ pre.products.kind = "absent"
  /\ resp.status = 404 /\ productsFile.kind = "absent"

(* ---------------- saves that may fail: SpecW -------------------------- *)
\* The six requests, where each fs.writeFileSync succeeds, is refused
\* (EACCES) or runs out of space after truncating the file (ENOSPC).
WList == GetProducts /\ UNCHANGED <<statsGhost, statsSeen, idGhost, conc>>
WCreate ==
  \E body \in {BaseBody, NoBody}, outcome \in WriteOutcomes :
    /\ MissingFields(body) \/ IdInBound
    /\ PostProduct(body, outcome)
    /\ UNCHANGED <<statsGhost, statsSeen, idGhost, conc>>
WUpdate ==
  \E pathId \in PathIds, body \in {OtherBody, NoBody}, outcome \in WriteOutcomes :
    /\ PutProduct(pathId, body, outcome)
    /\ UNCHANGED <<statsGhost, statsSeen, idGhost, conc>>
WDelete ==
  \E pathId \in PathIds, outcome \in WriteOutcomes :
    /\ DeleteProduct(pathId, outcome)
    /\ UNCHANGED <<statsGhost, statsSeen, idGhost, conc>>
WVisit ==
  \E outcome \in WriteOutcomes :
    /\ VisitInBound
    /\ PostVisit(outcome)
    /\ UNCHANGED <<statsGhost, statsSeen, idGhost, conc>>
WReadStats == GetStats /\ UNCHANGED <<statsGhost, statsSeen, idGhost, conc>>

NextW == WList \/ WCreate \/ WUpdate \/ WDelete \/ WVisit \/ WReadStats
SpecW == Init /\ [][NextW]_vars

SaveNames == {"saveProducts", "saveStats"}
SaveCalls == {i \in 1..Len(io) : io[i].call \in SaveNames}
SaveFailed == \E i \in SaveCalls : io[i].threw
WritingRequest == req.op \in {OpCreate, OpUpdate, OpDelete, OpVisit}

\* C16: a Create, Update, Delete or RecordVisit whose save failed is answered
\* with the generic server error and with no 200 or 201 response, its handler
\* called save exactly once, and the server goes on serving: the process is
\* still listening and a List and a GetStats can be served next.
C16_SaveFailureNotRecovered ==
  SaveFailed =>
    /\ WritingRequest
    /\ resp = ServerError
    /\ resp.status \notin {200, 201}
    /\ Cardinality(SaveCalls) = 1
    /\ listening
    /\ ENABLED WList
    /\ ENABLED WReadStats
\* an Update of a stored product failed for lack of space and left
\* products.json truncated
C16_Witness ==
  /\ SaveFailed /\ req.op = OpUpdate
  /\ Len(Stored(pre.products)) = 2
  /\ productsFile = FileCorrupt
  /\ resp.status = 500

\* C17: a List, Create, Update or Delete, whatever its answer, leaves
\* stats.json as it was; a RecordVisit or GetStats leaves products.json as it
\* was; and a List or GetStats changes neither file and calls no save.
C17_DatasetsIndependent ==
  /\ ProductRequest => statsFile = pre.stats
  /\ StatsRequest => productsFile = pre.products
  /\ req.op \in {OpList, OpStats} =>
       /\ productsFile = pre.products
       /\ statsFile = pre.stats
       /\ SaveCalls = {}
\* a Create whose save failed truncated products.json and left a stats.json
\* with recorded visits as it was
C17_Witness ==
  /\ req.op = OpCreate /\ resp.status = 500
  /\ pre.products.kind = "json" /\ productsFile = FileCorrupt
  /\ pre.stats.kind = "json" /\ Counter(pre.stats) >= 1
  /\ statsFile = pre.stats
\* a RecordVisit was served while products were stored
C17_WitnessVisit ==
  /\ req.op = OpVisit /\ resp.status = 200
  /\ Len(Stored(pre.products)) >= 1
  /\ statsFile # pre.stats /\ productsFile = pre.products
\* a List was served from an absent products.json
C17_WitnessList ==
  /\ req.op = OpList /\ pre.products.kind = "absent" /\ productsFile.kind = "absent"

====
